---- MODULE Spec2Model ----
(***************************************************************************)
(* State-machine model of the ankle-exoskeleton control code.              *)
(*                                                                         *)
(* Part 1: Code/GaitCalculator.py, the per-leg gait phase estimator.       *)
(* Part 2: Code/ZhangCollins.py, WitteCollins.py, Spring.py, ZeroTorque.py, *)
(*         the torque profiles (subclasses of Controller).                 *)
(* Part 3: Code/Exo.py, the conversion of an ankle torque to the motor     *)
(*         current sent to the device.                                     *)
(* Part 4: ZhangCollins.set_parameters statement by statement, run by one  *)
(*         thread while another evaluates the profile.                     *)
(*                                                                         *)
(* Numbers.  Timestamps and stride/stance durations are Python ints.  The  *)
(* expected durations and the percentages are produced by true division    *)
(* and are modelled as exact rationals <<numerator, denominator>> in       *)
(* lowest terms with a positive denominator (binary floating-point         *)
(* rounding is not modelled).  The source's "unset" sentinel -1 is the     *)
(* rational <<-1, 1>>.                                                     *)
(*                                                                         *)
(* Exceptions.  A Python exception ends the call at the statement that     *)
(* raises it; every assignment made before that statement persists.  Each  *)
(* operator below returns the estimator after the call together with the   *)
(* name of the exception raised ("none" if the call ran to its end).       *)
(***************************************************************************)
EXTENDS Integers, Sequences, FiniteSets, TLC

VARIABLES
    gait,   \* the GaitCalculator object (its attributes)
    now,    \* timestamp_ms of the most recent sample, -1 before the first
    call,   \* frame of the most recent call on the estimator
    obs,    \* history of validated heelstrikes (observer of `triggered`)
    controller, \* the torque profile object (a Controller subclass)
    ctrl_call,  \* frame of the most recent call on the torque profile
    exo,        \* the Exo object (its attributes)
    device,     \* the flexsea Device: the last motor current commanded (mA)
    tuner       \* the thread that updates the profile: its position in
                \* set_parameters

vars == <<gait, now, call, obs, controller, ctrl_call, exo, device, tuner>>

\* The objects a specification does not construct
NotConstructed == [cls |-> "none"]
estimator_vars == <<gait, now, call, obs>>
actuation_vars == <<controller, ctrl_call, exo, device, tuner>>

-----------------------------------------------------------------------------
(* Bounds of the model *)

MaxTime == 8          \* last timestamp (ms) fed in Spec
MaxStep == 2          \* largest gap between consecutive timestamps in Spec
MaxStrides == 2       \* largest num_strides_to_avg constructed in Spec

(* Program constants *)

DefaultArmThreshold == 150     \* heelstrike_segmentation_arm_threshold_rad_s
DefaultArmedPercent == 10      \* heelstrike_armed_duration_percent_gait
DefaultNumStrides == 10        \* num_strides_to_avg
Unset == -1                    \* the source's "unset" sentinel

-----------------------------------------------------------------------------
(* Exact rational arithmetic standing in for Python's float results *)

Abs(x) == IF x < 0 THEN -x ELSE x

RECURSIVE GCD(_, _)
GCD(a, b) == IF b = 0 THEN a ELSE GCD(b, a % b)

\* n/d in lowest terms with positive denominator (d # 0)
Rat(n, d) ==
    LET k == GCD(Abs(n), Abs(d))
        s == IF d < 0 THEN -1 ELSE 1
    IN  <<(s * n) \div k, (s * d) \div k>>

RatInt(n) == <<n, 1>>
RLt(a, b) == a[1] * b[2] < b[1] * a[2]
RLeq(a, b) == a[1] * b[2] <= b[1] * a[2]
RatUnset == RatInt(Unset)

RECURSIVE SumSeq(_)
SumSeq(s) == IF s = <<>> THEN 0 ELSE Head(s) + SumSeq(Tail(s))

SeqRange(s) == {s[i] : i \in 1..Len(s)}
MinSet(S) == CHOOSE x \in S : \A y \in S : x <= y
MaxSet(S) == CHOOSE x \in S : \A y \in S : y <= x

\* Python [v] * n
Repeat(v, n) == [i \in 1..n |-> v]

\* Python lst.insert(0, v); lst.pop()
InsertFrontPop(s, v) == SubSeq(<<v>> \o s, 1, Len(s))

-----------------------------------------------------------------------------
(* GaitCalculator: construction.  The object is a record whose fields are *)
(* exactly the attributes __init__ creates, under their source names.    *)

\* A Python attribute holding either a list or an int
PyList(items) == [list |-> TRUE, items |-> items, int |-> 0]
PyInt(v) == [list |-> FALSE, items |-> <<>>, int |-> v]

GaitCalculator(threshold, armed_percent, num_strides) ==
    [ _expected_stride_duration_ms |-> RatUnset,
      _expected_stance_duration_ms |-> RatUnset,
      heelstrike_trigger |-> FALSE,
      toeoff_trigger |-> FALSE,
      percent_gait |-> RatUnset,
      percent_stance |-> RatUnset,
      _heelstrike_segmentation_arm_threshold_rad_s |-> threshold,
      _heelstrike_armed_duration_percent_gait |-> armed_percent,
      _num_strides_to_avg |-> num_strides,
      _past_stride_durations |-> PyList(Repeat(Unset, num_strides)),
      _past_stance_durations |-> PyList(Repeat(Unset, num_strides)),
      _heelstrike_armed |-> FALSE,
      _toeoff_armed |-> FALSE,
      _heelstrike_armed_timestamp_ms |-> Unset,
      _toeoff_armed_timestamp_ms |-> Unset,
      _heelstrike_timestamp_current |-> Unset,
      _heelstrike_timestamp_previous |-> Unset,
      _toeoff_timestamp_current |-> Unset,
      _toeoff_timestamp_previous |-> Unset ]

-----------------------------------------------------------------------------
(* GaitCalculator: the adaptive duration filters *)

\* Result of a helper: the object after it, the exception it raised, and the
\* duration it computed: fed = TRUE when a duration was offered to the filter,
\* inserted = TRUE when the filter put it into the history
Outcome(g, exc, fed, inserted, dur) ==
    [g |-> g, exc |-> exc, fed |-> fed, inserted |-> inserted, dur |-> dur]

\* 0.25 * min(past) <= d <= 1.75 * min(past)
StrideIsReasonable(d, past) ==
    /\ 4 * d >= MinSet(SeqRange(past))
    /\ 4 * d <= 7 * MinSet(SeqRange(past))

\* 0.25 * min(past) <= d  and  d >= 1.75 * max(past)
StanceIsReasonable(d, past) ==
    /\ 4 * d >= MinSet(SeqRange(past))
    /\ 4 * d >= 7 * MaxSet(SeqRange(past))

\* The stride filter with the expected duration computed from the first
\* insertion on, while the history still has unset slots
_update_expected_stride_duration_from_first(g, timestamp_ms) ==
    IF g._heelstrike_timestamp_previous = Unset
    THEN Outcome([g EXCEPT !._heelstrike_timestamp_previous = timestamp_ms],
                 "none", FALSE, FALSE, 0)
    ELSE
      LET g1 == [g EXCEPT !._heelstrike_timestamp_previous = g._heelstrike_timestamp_current,
                          !._heelstrike_timestamp_current = timestamp_ms]
          stride_duration == g1._heelstrike_timestamp_current - g1._heelstrike_timestamp_previous
          past == g1._past_stride_durations
      IN  IF ~past.list
          THEN Outcome(g1, "TypeError", TRUE, FALSE, stride_duration)
          ELSE IF Unset \in SeqRange(past.items)
                  \/ StrideIsReasonable(stride_duration, past.items)
          THEN LET items == InsertFrontPop(past.items, stride_duration)
               IN  Outcome([g1 EXCEPT !._past_stride_durations = PyList(items),
                                      !._expected_stride_duration_ms =
                                          Rat(SumSeq(items), g1._num_strides_to_avg)],
                           "none", TRUE, TRUE, stride_duration)
          ELSE Outcome(g1, "none", TRUE, FALSE, stride_duration)

_update_expected_stride_duration(g, timestamp_ms) ==
    IF g._heelstrike_timestamp_previous = Unset
    THEN Outcome([g EXCEPT !._heelstrike_timestamp_previous = timestamp_ms],
                 "none", FALSE, FALSE, 0)
    ELSE
      LET g1 == [g EXCEPT !._heelstrike_timestamp_previous = g._heelstrike_timestamp_current,
                          !._heelstrike_timestamp_current = timestamp_ms]
          stride_duration == g1._heelstrike_timestamp_current - g1._heelstrike_timestamp_previous
          past == g1._past_stride_durations
      IN  IF ~past.list
          THEN Outcome(g1, "TypeError", TRUE, FALSE, stride_duration)   \* -1 in <int>
          ELSE IF Unset \in SeqRange(past.items)
          THEN Outcome([g1 EXCEPT !._past_stride_durations =
                              PyList(InsertFrontPop(past.items, stride_duration))],
                       "none", TRUE, TRUE, stride_duration)
          ELSE IF StrideIsReasonable(stride_duration, past.items)
          THEN LET items == InsertFrontPop(past.items, stride_duration)
               IN  Outcome([g1 EXCEPT !._past_stride_durations = PyList(items),
                                      !._expected_stride_duration_ms =
                                          Rat(SumSeq(items), g1._num_strides_to_avg)],
                           "none", TRUE, TRUE, stride_duration)
          ELSE Outcome(g1, "none", TRUE, FALSE, stride_duration)

_update_expected_stance_duration(g, timestamp_ms) ==
    IF g._toeoff_timestamp_previous = Unset
    THEN Outcome([g EXCEPT !._toeoff_timestamp_previous = timestamp_ms],
                 "none", FALSE, FALSE, 0)
    ELSE
      LET g1 == [g EXCEPT !._toeoff_timestamp_previous = g._toeoff_timestamp_current,
                          !._toeoff_timestamp_current = timestamp_ms]
          stance_duration == g1._toeoff_timestamp_current - g1._heelstrike_timestamp_current
          past == g1._past_stance_durations
      IN  IF ~past.list
          THEN Outcome(g1, "TypeError", TRUE, FALSE, stance_duration)
          ELSE IF Unset \in SeqRange(past.items)
          THEN Outcome([g1 EXCEPT !._past_stance_durations =
                              PyList(InsertFrontPop(past.items, stance_duration))],
                       "none", TRUE, TRUE, stance_duration)
          ELSE IF StanceIsReasonable(stance_duration, past.items)
          THEN LET items == InsertFrontPop(past.items, stance_duration)
               IN  Outcome([g1 EXCEPT !._past_stance_durations = PyList(items),
                                      !._expected_stance_duration_ms =
                                          Rat(SumSeq(items), g1._num_strides_to_avg)],
                           "none", TRUE, TRUE, stance_duration)
          ELSE Outcome(g1, "none", TRUE, FALSE, stance_duration)

-----------------------------------------------------------------------------
(* GaitCalculator: the two Schmitt-trigger detectors *)

\* armed_time > armed_percent/100 * expected_stride_duration_ms
ArmedLongEnough(g, armed_time) ==
    LET e == g._expected_stride_duration_ms
    IN  armed_time * 100 * e[2] > g._heelstrike_armed_duration_percent_gait * e[1]

\* Result of a detector: the helper's outcome plus the detector's own locals
Detected(o, triggered, armed_time) ==
    [g |-> o.g, exc |-> o.exc, fed |-> o.fed, inserted |-> o.inserted,
     dur |-> o.dur, triggered |-> triggered, armed_time |-> armed_time]

\* The heelstrike detector that keeps the armed timestamp when it disarms
_check_for_heelstrike_keeping_timestamp(g, timestamp_ms, gyro_rad_s) ==
    LET armed_time == IF g._heelstrike_armed_timestamp_ms # Unset
                      THEN timestamp_ms - g._heelstrike_armed_timestamp_ms
                      ELSE 0
        threshold == g._heelstrike_segmentation_arm_threshold_rad_s
        g1 == IF ~g._heelstrike_armed /\ gyro_rad_s >= threshold
              THEN [g EXCEPT !._heelstrike_armed = TRUE,
                             !._heelstrike_armed_timestamp_ms = timestamp_ms]
              ELSE g
    IN  IF g1._heelstrike_armed /\ gyro_rad_s <= threshold
        THEN LET g2 == [g1 EXCEPT !._heelstrike_armed = FALSE]
             IN  IF ArmedLongEnough(g2, armed_time)
                 THEN LET o == _update_expected_stride_duration(g2, timestamp_ms)
                      IN  IF o.exc # "none"
                          THEN Detected(o, TRUE, armed_time)
                          ELSE Detected([o EXCEPT !.g.heelstrike_trigger = TRUE],
                                        TRUE, armed_time)
                 ELSE Detected(Outcome([g2 EXCEPT !.heelstrike_trigger = FALSE],
                                       "none", FALSE, FALSE, 0), FALSE, armed_time)
        ELSE Detected(Outcome([g1 EXCEPT !.heelstrike_trigger = FALSE],
                              "none", FALSE, FALSE, 0), FALSE, armed_time)

_check_for_heelstrike(g, timestamp_ms, gyro_rad_s) ==
    LET armed_time == IF g._heelstrike_armed_timestamp_ms # Unset
                      THEN timestamp_ms - g._heelstrike_armed_timestamp_ms
                      ELSE 0
        threshold == g._heelstrike_segmentation_arm_threshold_rad_s
        g1 == IF ~g._heelstrike_armed /\ gyro_rad_s >= threshold
              THEN [g EXCEPT !._heelstrike_armed = TRUE,
                             !._heelstrike_armed_timestamp_ms = timestamp_ms]
              ELSE g
    IN  IF g1._heelstrike_armed /\ gyro_rad_s <= threshold
        THEN LET g2 == [g1 EXCEPT !._heelstrike_armed = FALSE,
                                  !._heelstrike_armed_timestamp_ms = Unset]
             IN  IF ArmedLongEnough(g2, armed_time)
                 THEN LET o == _update_expected_stride_duration(g2, timestamp_ms)
                      IN  IF o.exc # "none"
                          THEN Detected(o, TRUE, armed_time)
                          ELSE Detected([o EXCEPT !.g.heelstrike_trigger = TRUE],
                                        TRUE, armed_time)
                 ELSE Detected(Outcome([g2 EXCEPT !.heelstrike_trigger = FALSE],
                                       "none", FALSE, FALSE, 0), FALSE, armed_time)
        ELSE Detected(Outcome([g1 EXCEPT !.heelstrike_trigger = FALSE],
                              "none", FALSE, FALSE, 0), FALSE, armed_time)

_check_for_toeoff(g, timestamp_ms, gyro_rad_s) ==
    LET armed_time == IF g._toeoff_armed_timestamp_ms # Unset
                      THEN timestamp_ms - g._toeoff_armed_timestamp_ms
                      ELSE 0
        g1 == IF ~g._toeoff_armed /\ gyro_rad_s <= 0
              THEN [g EXCEPT !._toeoff_armed = TRUE,
                             !._toeoff_armed_timestamp_ms = timestamp_ms]
              ELSE g
    IN  IF g1._toeoff_armed /\ gyro_rad_s > 0
        THEN LET g2 == [g1 EXCEPT !._toeoff_armed = FALSE,
                                  !._toeoff_armed_timestamp_ms = Unset]
             IN  IF ArmedLongEnough(g2, armed_time)
                 THEN LET o == _update_expected_stance_duration(g2, timestamp_ms)
                      IN  IF o.exc # "none"
                          THEN Detected(o, TRUE, armed_time)
                          ELSE Detected([o EXCEPT !.g.toeoff_trigger = TRUE],
                                        TRUE, armed_time)
                 ELSE Detected(Outcome([g2 EXCEPT !.toeoff_trigger = FALSE],
                                       "none", FALSE, FALSE, 0), FALSE, armed_time)
        ELSE Detected(Outcome([g1 EXCEPT !.toeoff_trigger = FALSE],
                              "none", FALSE, FALSE, 0), FALSE, armed_time)

-----------------------------------------------------------------------------
(* GaitCalculator: phase computation *)

\* Python max(100, x): x when x > 100, otherwise 100
PyMax100(x) == IF RLt(RatInt(100), x) THEN x ELSE RatInt(100)

\* time_elapsed / expected * 100, for expected # 0
PercentOf(time_elapsed, expected) ==
    Rat(time_elapsed * expected[2] * 100, expected[1])

_calc_percent_gait(g, timestamp_ms) ==
    LET time_elapsed == timestamp_ms - g._heelstrike_timestamp_current
        expected == g._expected_stride_duration_ms
    IN  IF expected[1] = 0
        THEN [g |-> g, exc |-> "ZeroDivisionError"]
        ELSE [g |-> [g EXCEPT !.percent_gait =
                          PyMax100(PercentOf(time_elapsed, expected))],
              exc |-> "none"]

_calc_percent_stance(g, timestamp_ms) ==
    LET time_elapsed == timestamp_ms - g._heelstrike_timestamp_current
        expected == g._expected_stance_duration_ms
    IN  IF expected[1] = 0
        THEN [g |-> g, exc |-> "ZeroDivisionError"]
        ELSE LET percent_stance == PercentOf(time_elapsed, expected)
             IN  [g |-> [g EXCEPT !.percent_stance =
                              IF RLt(RatInt(100), percent_stance)
                              THEN RatUnset ELSE percent_stance],
                  exc |-> "none"]

-----------------------------------------------------------------------------
(* GaitCalculator: the public operations *)

\* The attributes the return statement of calculate_gait_parameters reads
ReturnedAttrs ==
    [percent_gait |-> "_percent_gait", percent_stance |-> "_percent_stance",
     heelstrike_trigger |-> "_heelstrike_trigger",
     toeoff_trigger |-> "_toeoff_trigger"]

\* A detector that was not reached because an earlier statement raised
NotRun == [ran |-> FALSE, triggered |-> FALSE, armed_time |-> 0,
           fed |-> FALSE, inserted |-> FALSE, dur |-> 0]
Ran(d) == [ran |-> TRUE, triggered |-> d.triggered, armed_time |-> d.armed_time,
           fed |-> d.fed, inserted |-> d.inserted, dur |-> d.dur]

\* Frame of a call: the object after it, the exception that ended it and the
\* statement it ended at, the locals of the two detectors, and the returned
\* dict (<<>> when the call returned none)
Frame(op, g, exc, at, hs, to, returned) ==
    [op |-> op, g |-> g, exc |-> exc, at |-> at, hs |-> hs, to |-> to,
     returned |-> returned]

calculate_gait_parameters(g, timestamp_ms, gyro_rad_s) ==
    LET hs == _check_for_heelstrike(g, timestamp_ms, gyro_rad_s)
    IN  IF hs.exc # "none"
        THEN Frame("calculate", hs.g, hs.exc, "_check_for_heelstrike", Ran(hs), NotRun, <<>>)
        ELSE
    LET to == _check_for_toeoff(hs.g, timestamp_ms, gyro_rad_s)
    IN  IF to.exc # "none"
        THEN Frame("calculate", to.g, to.exc, "_check_for_toeoff", Ran(hs), Ran(to), <<>>)
        ELSE
    LET pg == _calc_percent_gait(to.g, timestamp_ms)
    IN  IF pg.exc # "none"
        THEN Frame("calculate", pg.g, pg.exc, "_calc_percent_gait", Ran(hs), Ran(to), <<>>)
        ELSE
    LET ps == _calc_percent_stance(pg.g, timestamp_ms)
    IN  IF ps.exc # "none"
        THEN Frame("calculate", ps.g, ps.exc, "_calc_percent_stance", Ran(hs), Ran(to), <<>>)
        ELSE IF \E k \in DOMAIN ReturnedAttrs : ReturnedAttrs[k] \notin DOMAIN ps.g
        THEN Frame("calculate", ps.g, "AttributeError", "return", Ran(hs), Ran(to), <<>>)
        ELSE Frame("calculate", ps.g, "none", "return", Ran(hs), Ran(to),
                   << [k \in DOMAIN ReturnedAttrs |-> ps.g[ReturnedAttrs[k]]] >>)

clear_gait_estimate(g) ==
    Frame("clear",
          [g EXCEPT !._expected_stance_duration_ms = RatUnset,
                    !._expected_stride_duration_ms = RatUnset,
                    !._past_stride_durations = PyInt(-1 * g._num_strides_to_avg)],
          "none", "return", NotRun, NotRun, <<>>)

-----------------------------------------------------------------------------
(* The estimator driven by a sample stream *)

\* Angular rates fed: at rest, below the arm threshold, exactly at it, above it
GyroSamples ==
    {0, DefaultArmThreshold - 50, DefaultArmThreshold, DefaultArmThreshold + 50}

\* The call frame without the object (the object is the variable gait), with
\* the arguments of the call
Locals(f, args) == [op |-> f.op, args |-> args, exc |-> f.exc, at |-> f.at,
                    hs |-> f.hs, to |-> f.to, returned |-> f.returned]

\* Validated heelstrikes so far: how many, and the timestamps of the last two
Observe(o, f, timestamp_ms) ==
    IF f.hs.triggered
    THEN [hs_count |-> o.hs_count + 1, hs_last |-> timestamp_ms,
          hs_before |-> o.hs_last]
    ELSE o

Init ==
    /\ \E n \in 1..MaxStrides :
          gait = GaitCalculator(DefaultArmThreshold, DefaultArmedPercent, n)
    /\ now = Unset
    /\ call = Locals(Frame("init", gait, "none", "return", NotRun, NotRun, <<>>), <<>>)
    /\ obs = [hs_count |-> 0, hs_last |-> Unset, hs_before |-> Unset]
    /\ controller = NotConstructed /\ ctrl_call = NotConstructed
    /\ exo = NotConstructed /\ device = NotConstructed
    /\ tuner = NotConstructed

\* One sensor sample: calculate_gait_parameters(timestamp_ms, gyro_rad_s)
Sample(timestamp_ms, gyro_rad_s) ==
    /\ LET f == calculate_gait_parameters(gait, timestamp_ms, gyro_rad_s)
       IN  /\ gait' = f.g
           /\ call' = Locals(f, <<timestamp_ms, gyro_rad_s>>)
           /\ obs' = Observe(obs, f, timestamp_ms)
    /\ now' = timestamp_ms
    /\ UNCHANGED actuation_vars

\* Reset between trials: clear_gait_estimate()
Clear ==
    /\ LET f == clear_gait_estimate(gait)
       IN  /\ gait' = f.g
           /\ call' = Locals(f, <<>>)
    /\ UNCHANGED <<now, obs>>
    /\ UNCHANGED actuation_vars

Next ==
    \/ \E dt \in 1..MaxStep, gyro \in GyroSamples :
          now + dt <= MaxTime /\ Sample(now + dt, gyro)
    \/ Clear

Spec == Init /\ [][Next]_vars

-----------------------------------------------------------------------------
(* The estimator driven by a periodic synthetic gyro waveform *)

WaveStep == 100                  \* sampling interval of the waveform (ms)
WaveCycles == 12                 \* number of gait cycles fed
WavePeriod == 10 * WaveStep      \* one gait cycle: 1000 ms
WaveOffsets == {0, 25, 50, 75}   \* timestamp of the first sample

\* One threshold crossing per period: above the arm threshold for the first
\* fifth of the cycle, between zero and the threshold until mid-cycle, then
\* at rest
WaveGyro(t) ==
    LET p == t % WavePeriod
    IN  IF p < 2 * WaveStep THEN DefaultArmThreshold + 50
        ELSE IF p < 6 * WaveStep THEN DefaultArmThreshold - 50
        ELSE 0

InitWave ==
    /\ gait = GaitCalculator(DefaultArmThreshold, DefaultArmedPercent,
                             DefaultNumStrides)
    /\ now = Unset
    /\ call = Locals(Frame("init", gait, "none", "return", NotRun, NotRun, <<>>), <<>>)
    /\ obs = [hs_count |-> 0, hs_last |-> Unset, hs_before |-> Unset]
    /\ controller = NotConstructed /\ ctrl_call = NotConstructed
    /\ exo = NotConstructed /\ device = NotConstructed
    /\ tuner = NotConstructed

SampleWave ==
    \E t \in (IF now = Unset THEN WaveOffsets ELSE {now + WaveStep}) :
        /\ t < WaveCycles * WavePeriod
        /\ Sample(t, WaveGyro(t))

NextWave == SampleWave

SpecWave == InitWave /\ [][NextWave]_vars

-----------------------------------------------------------------------------
(* Vocabulary of the properties *)

Defined(e) == e # RatUnset

\* the call just made was calculate_gait_parameters and it reached `stmt`
Reached(c, stmts) == c.op = "calculate" /\ c.at \in stmts

\* a history list whose every slot holds the duration d
FilledWith(past, d) ==
    /\ past.list
    /\ Len(past.items) > 0
    /\ \A i \in 1..Len(past.items) : past.items[i] = d

\* a history list that still has an unset slot
Bootstrapping(past) == past.list /\ Unset \in SeqRange(past.items)

\* |e - target| <= tol for a rational e
Approx(e, target, tol) == Abs(e[1] - target * e[2]) <= tol * e[2]

\* the gait state of the data model: everything but the configuration and
\* the outputs of the last update
GaitState(g) ==
    [ expected_stride |-> g._expected_stride_duration_ms,
      expected_stance |-> g._expected_stance_duration_ms,
      stride_history |-> g._past_stride_durations,
      stance_history |-> g._past_stance_durations,
      heelstrike_armed |-> <<g._heelstrike_armed, g._heelstrike_armed_timestamp_ms>>,
      toeoff_armed |-> <<g._toeoff_armed, g._toeoff_armed_timestamp_ms>>,
      heelstrikes |-> <<g._heelstrike_timestamp_previous, g._heelstrike_timestamp_current>>,
      toeoffs |-> <<g._toeoff_timestamp_previous, g._toeoff_timestamp_current>> ]

-----------------------------------------------------------------------------
(* C1..C10: the phase estimator *)

\* C1: a heelstrike is validated only if the detector stayed armed for more
\* than armed_percent/100 of a DEFINED expected stride duration; a shorter
\* arming leaves the trigger false and leaves the stride history and the
\* heelstrike timestamps as they were.
C1_ValidatedOnlyAfterLongArming ==
    [][ call'.op = "calculate" =>
          LET e == gait._expected_stride_duration_ms
              long == /\ Defined(e)
                      /\ call'.hs.armed_time * 100 * e[2]
                           > gait._heelstrike_armed_duration_percent_gait * e[1]
          IN  /\ call'.hs.triggered => long
              /\ ~long =>
                   /\ ~call'.hs.triggered
                   /\ ~gait'.heelstrike_trigger
                   /\ gait'._past_stride_durations = gait._past_stride_durations
                   /\ gait'._heelstrike_timestamp_current
                        = gait._heelstrike_timestamp_current
                   /\ gait'._heelstrike_timestamp_previous
                        = gait._heelstrike_timestamp_previous
      ]_vars

\* C2: every duration inserted into the stride history is the time from the
\* immediately preceding validated heelstrike to the one being processed.
C2_StrideIsHeelstrikeToHeelstrike ==
    [][ (call'.op = "calculate" /\ call'.hs.inserted) =>
          call'.hs.dur = now' - obs.hs_last
      ]_vars

\* C3: for the stride and the stance filter, the insertion that fills the
\* last free slot of a history with N equal durations d leaves the expected
\* duration equal to d.
C3_NIdenticalDurationsGiveExpected ==
    [][ call'.op = "calculate" =>
          /\ ( /\ call'.hs.inserted
               /\ Bootstrapping(gait._past_stride_durations)
               /\ FilledWith(gait'._past_stride_durations, call'.hs.dur) )
             => gait'._expected_stride_duration_ms = RatInt(call'.hs.dur)
          /\ ( /\ call'.to.inserted
               /\ Bootstrapping(gait._past_stance_durations)
               /\ FilledWith(gait'._past_stance_durations, call'.to.dur) )
             => gait'._expected_stance_duration_ms = RatInt(call'.to.dur)
      ]_vars

\* C4: for the stride and the stance filter, once the history is full of a
\* duration d > 0, a fed duration of 5*d or more is rejected: the history
\* and the expected duration stay as they were.
C4_OutlierRejected ==
    [][ call'.op = "calculate" =>
          /\ \A d \in 1..(MaxTime + 1) :
               ( /\ call'.hs.fed
                 /\ FilledWith(gait._past_stride_durations, d)
                 /\ call'.hs.dur >= 5 * d )
               => /\ gait'._past_stride_durations = gait._past_stride_durations
                  /\ gait'._expected_stride_duration_ms
                       = gait._expected_stride_duration_ms
          /\ \A d \in 1..(MaxTime + 1) :
               ( /\ call'.to.fed
                 /\ FilledWith(gait._past_stance_durations, d)
                 /\ call'.to.dur >= 5 * d )
               => /\ gait'._past_stance_durations = gait._past_stance_durations
                  /\ gait'._expected_stance_duration_ms
                       = gait._expected_stance_duration_ms
      ]_vars

\* C5: on the periodic waveform (period 1000 ms, default estimator), from the
\* second validated heelstrike on the expected stride duration is defined
\* and within one sampling interval of 1000 ms.
C5_WaveStrideConverges ==
    obs.hs_count >= 2 =>
        /\ Defined(gait._expected_stride_duration_ms)
        /\ Approx(gait._expected_stride_duration_ms, WavePeriod, WaveStep)

\* C6: while the expected stride (stance) duration is unset, the percent
\* gait (percent stance) an update computes is the undefined value -1.
C6_UndefinedWhileUnset ==
    Reached(call, {"return"}) =>
        /\ ~Defined(gait._expected_stride_duration_ms)
             => gait.percent_gait = RatUnset
        /\ ~Defined(gait._expected_stance_duration_ms)
             => gait.percent_stance = RatUnset

\* C7: with the expected stride duration defined and the sample not earlier
\* than the last heelstrike, percent gait is
\* min(100, 100 * (now - lastHeelstrike) / expected), a value in [0, 100].
C7_PercentGaitCappedAt100 ==
    ( /\ Reached(call, {"_calc_percent_stance", "return"})
      /\ Defined(gait._expected_stride_duration_ms)
      /\ now >= gait._heelstrike_timestamp_current )
    => LET raw == PercentOf(now - gait._heelstrike_timestamp_current,
                            gait._expected_stride_duration_ms)
       IN  /\ gait.percent_gait
                = (IF RLt(RatInt(100), raw) THEN RatInt(100) ELSE raw)
           /\ RLeq(RatInt(0), gait.percent_gait)
           /\ RLeq(gait.percent_gait, RatInt(100))

\* C8: with the expected stance duration defined, _calc_percent_stance
\* reports 100 * (now - lastHeelstrike) / expected when that is at most 100
\* and the sentinel -1 when it is more; the report never exceeds 100.
C8_PercentStanceOrSentinel ==
    ( /\ Reached(call, {"_calc_percent_stance", "return"})
      /\ Defined(gait._expected_stance_duration_ms) )
    => /\ call.exc # "ZeroDivisionError"
       /\ LET raw == PercentOf(now - gait._heelstrike_timestamp_current,
                               gait._expected_stance_duration_ms)
          IN  gait.percent_stance
                = (IF RLt(RatInt(100), raw) THEN RatUnset ELSE raw)
       /\ RLeq(gait.percent_stance, RatInt(100))

\* C9: every calculate_gait_parameters call completes without raising and
\* returns the triggers and percentages computed during that call.
C9_UpdateReturnsItsResults ==
    call.op = "calculate" =>
        /\ call.exc = "none"
        /\ call.returned =
             << [ percent_gait |-> gait.percent_gait,
                  percent_stance |-> gait.percent_stance,
                  heelstrike_trigger |-> gait.heelstrike_trigger,
                  toeoff_trigger |-> gait.toeoff_trigger ] >>

\* C10: after clear_gait_estimate the gait state equals that of a freshly
\* constructed estimator with the same configuration.
C10_ClearResetsGaitState ==
    call.op = "clear" =>
        GaitState(gait) =
            GaitState(GaitCalculator(
                gait._heelstrike_segmentation_arm_threshold_rad_s,
                gait._heelstrike_armed_duration_percent_gait,
                gait._num_strides_to_avg))

-----------------------------------------------------------------------------
(* Part 2: the torque profiles.  Every number of a profile is an exact      *)
(* rational; Python's int -1 and float -1.0 are equal and both are RatUnset *)

LCM(a, b) == (a \div GCD(a, b)) * b
RNeg(a) == <<-a[1], a[2]>>
RAdd(a, b) ==
    LET l == LCM(a[2], b[2])
    IN  Rat(a[1] * (l \div a[2]) + b[1] * (l \div b[2]), l)
RSub(a, b) == RAdd(a, RNeg(b))
RMul(a, b) ==
    LET g == GCD(Abs(a[1]), b[2])
        h == GCD(Abs(b[1]), a[2])
    IN  Rat((a[1] \div g) * (b[1] \div h), (a[2] \div h) * (b[2] \div g))
\* a / b for b # 0 (Python raises ZeroDivisionError when b = 0)
RDiv(a, b) == RMul(a, Rat(b[2], b[1]))
\* m.pow(x, n) and x ** n for a natural exponent
RECURSIVE pow(_, _)
pow(x, n) == IF n = 0 THEN RatInt(1) ELSE RMul(x, pow(x, n - 1))
RSum(terms) ==
    LET RECURSIVE Acc(_)
        Acc(i) == IF i = 0 THEN RatInt(0) ELSE RAdd(Acc(i - 1), terms[i])
    IN  Acc(Len(terms))

\* Controller.__init__
Controller == [torque_cmd |-> RatInt(0)]

\* `"key" in kwargs and kwargs["key"] != -1`
Given(kwargs, key) == key \in DOMAIN kwargs /\ kwargs[key] # RatUnset
Updated(old, kwargs, key) == IF Given(kwargs, key) THEN kwargs[key] ELSE old

\* How a call on a profile ends: the object after it, the exception it raised
\* ("none" if it ran to its end) and the value it returned
Returned(c, ret) == [c |-> c, exc |-> "none", ret |-> ret]
Raised(c, exc) == [c |-> c, exc |-> exc, ret |-> RatInt(0)]

\* The attributes shared by the two spline profiles
SplineAttributes ==
    [t0 |-> RatUnset, t1 |-> RatUnset, t2 |-> RatUnset, t3 |-> RatUnset,
     ts |-> RatUnset, tp |-> RatUnset, user_mass |-> RatUnset,
     peak_torque_normalized |-> RatUnset,
     a1 |-> RatUnset, b1 |-> RatUnset, c1 |-> RatUnset, d1 |-> RatUnset,
     a2 |-> RatUnset, b2 |-> RatUnset, c2 |-> RatUnset, d2 |-> RatUnset]

\* Record extension: the fields of r and those of e
Extend(r, e) ==
    [f \in DOMAIN r \cup DOMAIN e |-> IF f \in DOMAIN e THEN e[f] ELSE r[f]]

\* ZhangCollins.__init__
ZhangCollins ==
    Extend(Extend(Controller, SplineAttributes),
           [cls |-> "ZhangCollins", percent_gait |-> RatUnset])

\* The keyword arguments applied to the parameters, each only if it is
\* present and not -1; unit is "gait" or "stance"
ApplyKwargs(c, kwargs, unit) ==
    [c EXCEPT
       !.user_mass = Updated(@, kwargs, "user_mass"),
       !.t0 = Updated(@, kwargs, "ramp_start_percent_" \o unit),
       !.t1 = Updated(@, kwargs, "onset_percent_" \o unit),
       !.t2 = Updated(@, kwargs, "peak_percent_" \o unit),
       !.t3 = Updated(@, kwargs, "stop_percent_" \o unit),
       !.ts = Updated(@, kwargs, "onset_torque"),
       !.peak_torque_normalized = Updated(@, kwargs, "normalized_peak_torque")]

\* The condition of the `if` that guards the recomputation.  Its text is
\* `(A and B, C and D and ...)`: the comma makes it a tuple of two booleans,
\* and a tuple is true when it is not empty
ParametersSet(c) ==
    LET condition ==
          <<c.user_mass # RatUnset /\ c.t0 # RatUnset,
            c.t1 # RatUnset /\ c.t2 # RatUnset /\ c.t3 # RatUnset
              /\ c.ts # RatUnset /\ c.peak_torque_normalized # RatUnset>>
    IN  Len(condition) # 0

\* Coefficients of the rising spline (t1 # t2), one per assignment
RisingA1(t1, t2, ts, tp) ==
    RDiv(RMul(RatInt(2), RSub(tp, ts)), pow(RSub(t1, t2), 3))

RisingB1(t1, t2, ts, tp) ==
    RNeg(RDiv(RMul(RMul(RatInt(3), RAdd(t1, t2)), RSub(tp, ts)),
              pow(RSub(t1, t2), 3)))

\* The linear coefficient with the factor 3 in place of 6
RisingC1Halved(t1, t2, ts, tp) ==
    RDiv(RMul(RMul(RMul(RatInt(3), t1), t2), RSub(tp, ts)),
         pow(RSub(t1, t2), 3))

RisingC1(t1, t2, ts, tp) ==
    RDiv(RMul(RMul(RMul(RatInt(6), t1), t2), RSub(tp, ts)),
         pow(RSub(t1, t2), 3))

RisingD1(t1, t2, ts, tp) ==
    RNeg(RDiv(RSum(<<RMul(RNeg(pow(t1, 3)), tp),
                     RMul(RMul(RMul(RatInt(3), pow(t1, 2)), t2), tp),
                     RNeg(RMul(RMul(RMul(RatInt(3), t1), pow(t2, 2)), ts)),
                     RMul(pow(t2, 3), ts)>>),
              pow(RSub(t1, t2), 3)))

RisingSpline(t1, t2, ts, tp) ==
    [a1 |-> RisingA1(t1, t2, ts, tp), b1 |-> RisingB1(t1, t2, ts, tp),
     c1 |-> RisingC1(t1, t2, ts, tp), d1 |-> RisingD1(t1, t2, ts, tp)]

\* Coefficients of the falling spline (t2 # t3), one per assignment
FallingA2(t2, t3, ts, tp) ==
    RNeg(RDiv(RSub(tp, ts), RMul(RatInt(2), pow(RSub(t2, t3), 3))))

FallingB2(t2, t3, ts, tp) ==
    RDiv(RMul(RMul(RatInt(3), t3), RSub(tp, ts)),
         RMul(RatInt(2), pow(RSub(t2, t3), 3)))

FallingC2(t2, t3, ts, tp) ==
    RDiv(RMul(RMul(RatInt(3),
                   RSub(pow(t2, 2), RMul(RMul(RatInt(2), t2), t3))),
              RSub(tp, ts)),
         RMul(RatInt(2), pow(RSub(t2, t3), 3)))

FallingD2(t2, t3, ts, tp) ==
    RNeg(RDiv(RSum(<<RMul(RMul(RMul(RatInt(3), pow(t2, 2)), t3), tp),
                     RNeg(RMul(RMul(RMul(RatInt(6), t2), pow(t3, 2)), tp)),
                     RMul(RMul(RatInt(2), pow(t3, 3)), tp),
                     RNeg(RMul(RMul(RatInt(2), pow(t2, 3)), ts)),
                     RMul(RMul(RMul(RatInt(3), pow(t2, 2)), t3), ts)>>),
              RMul(RatInt(2), pow(RSub(t2, t3), 3))))

FallingSpline(t2, t3, ts, tp) ==
    [a2 |-> FallingA2(t2, t3, ts, tp), b2 |-> FallingB2(t2, t3, ts, tp),
     c2 |-> FallingC2(t2, t3, ts, tp), d2 |-> FallingD2(t2, t3, ts, tp)]

\* The recomputation: tp, then a1..d1, then a2..d2, one assignment after the
\* other; a division by pow(0, 3) raises and leaves the rest as it was
Recompute(c) ==
    LET p == [c EXCEPT !.tp = RMul(c.user_mass, c.peak_torque_normalized)]
        r == Extend(p, RisingSpline(p.t1, p.t2, p.ts, p.tp))
    IN  IF p.t1 = p.t2 THEN Raised(p, "ZeroDivisionError")
        ELSE IF p.t2 = p.t3 THEN Raised(r, "ZeroDivisionError")
        ELSE Returned(Extend(r, FallingSpline(p.t2, p.t3, p.ts, p.tp)), RatInt(0))

ZhangCollins_set_parameters(c, kwargs) ==
    LET p == ApplyKwargs(c, kwargs, "gait")
    IN  IF ParametersSet(p) THEN Recompute(p) ELSE Returned(p, RatInt(0))

\* WitteCollins.__init__
WitteCollins ==
    Extend(Extend(Controller, SplineAttributes),
           [cls |-> "WitteCollins", percent_stance |-> RatUnset])

\* "set limits on how close time points can be to one another"
MinSpacing == 20

\* The limit applied to the peak only
SpacedApartPeakOnly(c) ==
    IF RLt(RSub(c.t3, c.t2), RatInt(MinSpacing))
    THEN [c EXCEPT !.t2 = RSub(c.t3, RatInt(MinSpacing))] ELSE c

SpacedApart(c) ==
    LET p == IF RLt(RSub(c.t3, c.t2), RatInt(MinSpacing))
             THEN [c EXCEPT !.t2 = RSub(c.t3, RatInt(MinSpacing))] ELSE c
    IN  IF RLt(RSub(p.t2, p.t1), RatInt(MinSpacing))
        THEN [p EXCEPT !.t1 = RSub(p.t2, RatInt(MinSpacing))] ELSE p

WitteCollins_set_parameters(c, kwargs) ==
    LET p == ApplyKwargs(c, kwargs, "stance")
    IN  IF ParametersSet(p) THEN Recompute(SpacedApart(p))
        ELSE Returned(p, RatInt(0))

\* `self.torque_cmd = tau` and `return tau`
Stored(c, tau) == Returned([c EXCEPT !.torque_cmd = tau], tau)

\* The cubic without its constant term
CubicWithoutConstant(a, b, c, d, x) ==
    RSum(<<RMul(a, pow(x, 3)), RMul(b, pow(x, 2)), RMul(c, x)>>)

\* a*x^3 + b*x^2 + c*x + d
Cubic(a, b, c, d, x) ==
    RSum(<<RMul(a, pow(x, 3)), RMul(b, pow(x, 2)), RMul(c, x), d>>)

\* The torque of a spline profile at the stored phase
SplineTorque(c, phase) ==
    IF phase = RatUnset THEN Stored(c, RatInt(0))
    ELSE IF RLeq(phase, c.t1) /\ RLeq(c.t0, phase)
    THEN IF c.t1 = c.t0 THEN Raised(c, "ZeroDivisionError")
         ELSE LET slope == RDiv(c.ts, RSub(c.t1, c.t0))
              IN  Stored(c, RSub(RMul(slope, phase), RMul(slope, c.t0)))
    ELSE IF RLeq(phase, c.t2)
    THEN Stored(c, Cubic(c.a1, c.b1, c.c1, c.d1, phase))
    ELSE IF RLeq(phase, c.t3)
    THEN Stored(c, Cubic(c.a2, c.b2, c.c2, c.d2, phase))
    ELSE Stored(c, RatInt(0))

ZhangCollins_calculate_torque_cmd(c, kwargs) ==
    LET p == [c EXCEPT !.percent_gait = Updated(@, kwargs, "percent_gait")]
    IN  SplineTorque(p, p.percent_gait)

WitteCollins_calculate_torque_cmd(c, kwargs) ==
    LET p == [c EXCEPT !.percent_stance = Updated(@, kwargs, "percent_stance")]
    IN  SplineTorque(p, p.percent_stance)

\* Spring.__init__
Spring ==
    Extend(Controller, [cls |-> "Spring", zero_angle |-> RatUnset,
                        current_angle |-> RatUnset, ks |-> RatUnset])

Spring_set_parameters(c, kwargs) ==
    Returned([c EXCEPT !.zero_angle = Updated(@, kwargs, "zero_angle"),
                       !.ks = Updated(@, kwargs, "ks")], RatInt(0))

Spring_calculate_torque_cmd(c, kwargs) ==
    LET p == [c EXCEPT !.current_angle = Updated(@, kwargs, "current_angle")]
        angle == p.current_angle
    IN  IF angle = RatUnset THEN Stored(p, RatInt(0))
        ELSE IF RLeq(angle, RatInt(0)) THEN Stored(p, RMul(p.zero_angle, p.ks))
        ELSE IF RLeq(p.zero_angle, angle) THEN Stored(p, RatInt(0))
        ELSE Stored(p, RMul(RSub(p.zero_angle, angle), p.ks))

\* ZeroTorque.__init__
ZeroTorque == Extend(Controller, [cls |-> "ZeroTorque"])

ZeroTorque_set_parameters(c, kwargs) == Returned(c, RatInt(0))

ZeroTorque_calculate_torque_cmd(c, kwargs) == Stored(c, RatInt(0))

\* The abstract methods of Controller, dispatched on the object's class
set_parameters(c, kwargs) ==
    CASE c.cls = "ZhangCollins" -> ZhangCollins_set_parameters(c, kwargs)
      [] c.cls = "WitteCollins" -> WitteCollins_set_parameters(c, kwargs)
      [] c.cls = "Spring" -> Spring_set_parameters(c, kwargs)
      [] c.cls = "ZeroTorque" -> ZeroTorque_set_parameters(c, kwargs)

calculate_torque_cmd(c, kwargs) ==
    CASE c.cls = "ZhangCollins" -> ZhangCollins_calculate_torque_cmd(c, kwargs)
      [] c.cls = "WitteCollins" -> WitteCollins_calculate_torque_cmd(c, kwargs)
      [] c.cls = "Spring" -> Spring_calculate_torque_cmd(c, kwargs)
      [] c.cls = "ZeroTorque" -> ZeroTorque_calculate_torque_cmd(c, kwargs)

-----------------------------------------------------------------------------
(* The torque profiles as a state machine: one profile object, on which     *)
(* set_parameters and calculate_torque_cmd are called in any order          *)

\* Calls made on the profile in one run
MaxCalls == 3

\* Breakpoints (percent) and magnitudes offered to set_parameters
RampStarts == {0, 20, 40}
Onsets == {40}
Peaks == {60}
Stops == {70, 80}
OnsetTorques == {2}
UserMasses == {10}
PeakTorques == {Rat(1, 2)}
\* Phases (percent) offered to a spline profile
Phases == {-2, 0, 20, 40, 60, 90}
\* Spring parameters and ankle angles offered to a Spring
ZeroAngles == {1, 2}
Stiffnesses == {0, 3}
Angles == {-2, -1, 0, 1, 2, 3}

NoKwargs == <<>>
Ints(S) == {RatInt(v) : v \in S}

\* The keys of a spline profile's parameters with the values offered for each
SplineKeys(unit) ==
    ("user_mass" :> Ints(UserMasses))
    @@ ("ramp_start_percent_" \o unit :> Ints(RampStarts))
    @@ ("onset_percent_" \o unit :> Ints(Onsets))
    @@ ("peak_percent_" \o unit :> Ints(Peaks))
    @@ ("stop_percent_" \o unit :> Ints(Stops))
    @@ ("onset_torque" :> Ints(OnsetTorques))
    @@ ("normalized_peak_torque" :> PeakTorques)

SpringKeys == ("zero_angle" :> Ints(ZeroAngles)) @@ ("ks" :> Ints(Stiffnesses))

\* Every key given, each with one of its offered values
Complete(keys) ==
    LET RECURSIVE Over(_)
        Over(ks) ==
          IF ks = {} THEN {NoKwargs}
          ELSE LET k == CHOOSE x \in ks : TRUE
               IN  {(k :> v) @@ kw : v \in keys[k], kw \in Over(ks \ {k})}
    IN  Over(DOMAIN keys)

\* Keyword arguments over the keys: nothing, one key with an offered value,
\* or every key; and the key `unset` passed as -1
KwargsOver(keys, unset) ==
    {NoKwargs}
    \cup UNION {{k :> v : v \in keys[k]} : k \in DOMAIN keys}
    \cup Complete(keys)
    \cup {unset :> RatUnset}

ParameterKwargs(cls) ==
    CASE cls = "ZhangCollins" -> KwargsOver(SplineKeys("gait"), "user_mass")
      [] cls = "WitteCollins" -> KwargsOver(SplineKeys("stance"), "user_mass")
      [] cls = "Spring" -> KwargsOver(SpringKeys, "zero_angle")
      [] cls = "ZeroTorque" -> {NoKwargs}

\* The state info of a call: absent, -1, or an offered phase or angle
StateKwargs(cls) ==
    {NoKwargs} \cup
    CASE cls = "ZhangCollins" ->
            {"percent_gait" :> v : v \in Ints(Phases) \cup {RatUnset}}
      [] cls = "WitteCollins" ->
            {"percent_stance" :> v : v \in Ints(Phases) \cup {RatUnset}}
      [] cls = "Spring" ->
            {"current_angle" :> v : v \in Ints(Angles)}
      [] cls = "ZeroTorque" -> {}

\* The frame of the nth call on the profile
CallFrame(op, kwargs, r, nth) ==
    [op |-> op, kwargs |-> kwargs, exc |-> r.exc, ret |-> r.ret, nth |-> nth]

InitTorque ==
    /\ controller \in {ZhangCollins, WitteCollins, Spring, ZeroTorque}
    /\ ctrl_call = CallFrame("__init__", NoKwargs, Returned(controller, RatInt(0)), 0)
    /\ gait = NotConstructed /\ now = Unset
    /\ call = NotConstructed /\ obs = NotConstructed
    /\ exo = NotConstructed /\ device = NotConstructed
    /\ tuner = NotConstructed

SetParameters(kwargs) ==
    /\ LET r == set_parameters(controller, kwargs)
       IN  /\ controller' = r.c
           /\ ctrl_call' = CallFrame("set_parameters", kwargs, r, ctrl_call.nth + 1)
    /\ UNCHANGED <<estimator_vars, exo, device, tuner>>

CalculateTorqueCmd(kwargs) ==
    /\ LET r == calculate_torque_cmd(controller, kwargs)
       IN  /\ controller' = r.c
           /\ ctrl_call' = CallFrame("calculate_torque_cmd", kwargs, r, ctrl_call.nth + 1)
    /\ UNCHANGED <<estimator_vars, exo, device, tuner>>

NextTorque ==
    \/ \E kwargs \in ParameterKwargs(controller.cls) :
          ctrl_call.nth < MaxCalls /\ SetParameters(kwargs)
    \/ \E kwargs \in StateKwargs(controller.cls) :
          ctrl_call.nth < MaxCalls /\ CalculateTorqueCmd(kwargs)

SpecTorque == InitTorque /\ [][NextTorque]_vars

-----------------------------------------------------------------------------
(* Vocabulary of the properties of the torque profiles *)

IsSpline(c) == c.cls \in {"ZhangCollins", "WitteCollins"}

\* The keyword and the attribute that carry the state info of a profile
StateKey(c) ==
    CASE c.cls = "ZhangCollins" -> "percent_gait"
      [] c.cls = "WitteCollins" -> "percent_stance"
      [] c.cls = "Spring" -> "current_angle"
      [] OTHER -> "none"

\* The keyword of a spline profile's onset breakpoint
OnsetKey(c) ==
    IF c.cls = "ZhangCollins" THEN "onset_percent_gait"
    ELSE "onset_percent_stance"

\* Every required parameter of the profile is set
Configured(c) ==
    CASE IsSpline(c) ->
           \A f \in {"user_mass", "t0", "t1", "t2", "t3", "ts",
                     "peak_torque_normalized"} : c[f] # RatUnset
      [] c.cls = "Spring" -> c.zero_angle # RatUnset /\ c.ks # RatUnset
      [] OTHER -> TRUE

Ordered(c) == RLt(c.t0, c.t1) /\ RLt(c.t1, c.t2) /\ RLt(c.t2, c.t3)

\* tp and the eight spline coefficients of a profile
Coefficients(c) == <<c.tp, c.a1, c.b1, c.c1, c.d1, c.a2, c.b2, c.c2, c.d2>>

\* The cubics the coefficients define, and their derivatives
RisingAt(c, x) == Cubic(c.a1, c.b1, c.c1, c.d1, x)
FallingAt(c, x) == Cubic(c.a2, c.b2, c.c2, c.d2, x)
Slope(a, b, c, x) ==
    RSum(<<RMul(RMul(RatInt(3), a), pow(x, 2)), RMul(RMul(RatInt(2), b), x), c>>)

\* The last call evaluated the profile, with or without its state info
Evaluated == ctrl_call.op = "calculate_torque_cmd"
EvaluatedAt(v) ==
    /\ Evaluated
    /\ StateKey(controller) \in DOMAIN ctrl_call.kwargs
    /\ ctrl_call.kwargs[StateKey(controller)] = v
Input == ctrl_call.kwargs[StateKey(controller)]
HasInput == Evaluated /\ StateKey(controller) \in DOMAIN ctrl_call.kwargs
ReturnedValue(v) == ctrl_call.exc = "none" /\ ctrl_call.ret = v

-----------------------------------------------------------------------------
\* C11: a spline profile configured with breakpoints t0 < t1 < t2 < t3 returns
\* torque 0 for every phase below t0 and for every phase above t3.
C11_ZeroOutsideBreakpoints ==
    (/\ IsSpline(controller) /\ Configured(controller) /\ Ordered(controller)
     /\ HasInput
     /\ (RLt(Input, controller.t0) \/ RLt(controller.t3, Input)))
    => ReturnedValue(RatInt(0))

\* C12 as stated: after a set_parameters call that gives every parameter,
\* with the given onset before the given peak, the rising cubic takes the
\* value ts at the given onset breakpoint.
C12_RisingSplineThroughGivenOnset ==
    (/\ IsSpline(controller) /\ ctrl_call.op = "set_parameters"
     /\ ctrl_call.exc = "none"
     /\ OnsetKey(controller) \in DOMAIN ctrl_call.kwargs
     /\ Configured(controller) /\ Ordered(controller))
    => RisingAt(controller, ctrl_call.kwargs[OnsetKey(controller)])
         = controller.ts

\* C12 amended: whenever the stored breakpoints of a spline profile satisfy
\* t1 < t2 after a set_parameters call, the rising coefficients define the
\* cubic p with p(t1) = ts, p(t2) = tp = user_mass * peak_torque_normalized,
\* p'(t1) = 0 and p'(t2) = 0, t1 and t2 being the breakpoints the profile
\* stores (WitteCollins moves them at least 20 apart before it computes).
C12_RisingSplineIsHermite ==
    (/\ IsSpline(controller) /\ ctrl_call.nth > 0
     /\ RLt(controller.t1, controller.t2))
    => LET c == controller
       IN  /\ RisingAt(c, c.t1) = c.ts
           /\ RisingAt(c, c.t2) = c.tp
           /\ c.tp = RMul(c.user_mass, c.peak_torque_normalized)
           /\ Slope(c.a1, c.b1, c.c1, c.t1) = RatInt(0)
           /\ Slope(c.a1, c.b1, c.c1, c.t2) = RatInt(0)

\* C12 witness: a WitteCollins given every parameter, with the peak less than
\* 20 before the stop, stores an onset other than the one given and has
\* computed its rising coefficients for it.
C12_Witness ==
    /\ controller.cls = "WitteCollins" /\ ctrl_call.op = "set_parameters"
    /\ "onset_percent_stance" \in DOMAIN ctrl_call.kwargs
    /\ Configured(controller) /\ Ordered(controller)
    /\ controller.t1 # ctrl_call.kwargs["onset_percent_stance"]
    /\ controller.a1 # RatUnset

\* C13: for breakpoints t0 < t1 < t2 < t3 the falling coefficients define the
\* cubic q with q(t2) = tp, q(t3) = ts, q'(t2) = 0 and q'(t3) = 0.
C13_FallingSplineIsHermite ==
    (/\ IsSpline(controller) /\ ctrl_call.nth > 0
     /\ Configured(controller) /\ Ordered(controller))
    => LET c == controller
       IN  /\ FallingAt(c, c.t2) = c.tp
           /\ FallingAt(c, c.t3) = c.ts
           /\ Slope(c.a2, c.b2, c.c2, c.t2) = RatInt(0)
           /\ Slope(c.a2, c.b2, c.c2, c.t3) = RatInt(0)

\* C14: a ZhangCollins with all seven parameters set and t0 < t1 < t2 < t3
\* returns 0 at phase t0, ts at phase t1, tp = user_mass *
\* normalized_peak_torque at phase t2 and 0 at any phase above t3.
C14_TorqueAtBreakpoints ==
    (/\ controller.cls = "ZhangCollins"
     /\ Configured(controller) /\ Ordered(controller) /\ HasInput)
    => LET c == controller
       IN  /\ Input = c.t0 => ReturnedValue(RatInt(0))
           /\ Input = c.t1 => ReturnedValue(c.ts)
           /\ Input = c.t2 =>
                ReturnedValue(RMul(c.user_mass, c.peak_torque_normalized))
           /\ RLt(c.t3, Input) => ReturnedValue(RatInt(0))

\* C14 witness: the peak torque, different from 0 and from the onset torque,
\* returned at phase t2 by a configured ZhangCollins.
C14_Witness ==
    /\ controller.cls = "ZhangCollins"
    /\ Configured(controller) /\ Ordered(controller)
    /\ EvaluatedAt(controller.t2)
    /\ ctrl_call.ret = controller.tp
    /\ controller.tp \notin {RatInt(0), controller.ts}

\* C15: a set_parameters call on a spline profile that leaves a required
\* parameter unset (-1) does not recompute: tp and the eight coefficients keep
\* the values they had before the call, and the call does not raise.
C15_IncompleteParametersKeepCoefficients ==
    [][(/\ ctrl_call'.op = "set_parameters"
        /\ ctrl_call'.nth = ctrl_call.nth + 1
        /\ IsSpline(controller') /\ ~Configured(controller'))
       => (/\ ctrl_call'.exc = "none"
           /\ Coefficients(controller') = Coefficients(controller))]_vars

\* C16: a calculate_torque_cmd call whose state info is absent or -1 returns 0
\* and stores 0 as torque_cmd, whatever the earlier calls were.
C16_NoStateInfoGivesZero ==
    (Evaluated /\ (~HasInput \/ EvaluatedAt(RatUnset)))
    => (ReturnedValue(RatInt(0)) /\ controller.torque_cmd = RatInt(0))

\* C17: a Spring, ZhangCollins or WitteCollins of which some required
\* parameter is still unset (never successfully configured) returns torque 0
\* from calculate_torque_cmd for every input, negative ones included.
C17_UnconfiguredGivesZero ==
    (Evaluated /\ ~Configured(controller)) => ReturnedValue(RatInt(0))

\* C18: a Spring with zero_angle theta0 > 0 and ks >= 0 returns theta0*ks for
\* an angle theta <= 0, 0 for theta >= theta0 and (theta0 - theta)*ks in
\* between.
C18_SpringTorque ==
    (/\ controller.cls = "Spring" /\ HasInput
     /\ RLt(RatInt(0), controller.zero_angle)
     /\ RLeq(RatInt(0), controller.ks))
    => LET c == controller
       IN  ReturnedValue(
             IF RLeq(Input, RatInt(0)) THEN RMul(c.zero_angle, c.ks)
             ELSE IF RLeq(c.zero_angle, Input) THEN RatInt(0)
             ELSE RMul(RSub(c.zero_angle, Input), c.ks))

-----------------------------------------------------------------------------
(* Part 3: Code/Exo.py, from an ankle torque (Nm) to the motor current (mA)  *)
(* commanded on the device                                                  *)

CurrentLimitA == 25            \* _current_limit_A

RAbs(a) == <<Abs(a[1]), a[2]>>
\* np.sign
sign(a) == IF a[1] < 0 THEN -1 ELSE IF a[1] = 0 THEN 0 ELSE 1
\* int(x): the integer part, rounding towards zero
int(a) == sign(a) * (Abs(a[1]) \div a[2])

\* The multiplier that ignores the side
DirectionIgnoringSide(is_left) == 1

_get_direction_from_is_left(is_left) == IF is_left THEN -1 ELSE 1

\* Exo.__init__: the calibration read from the config file and the first
\* reading of the device
Exo(is_left, coeffs, ankle_angle_rad) ==
    [torque_cmd_Nm |-> RatInt(0), current_cmd_A |-> RatInt(0),
     is_left |-> is_left,
     _direction |-> _get_direction_from_is_left(is_left),
     _wm_wa_coeffs |-> coeffs, _wm_wa |-> RatInt(0),
     _kt |-> Rat(146, 1000),
     _current_limit_A |-> RatInt(CurrentLimitA),
     data |-> [ankle_angle_rad |-> ankle_angle_rad]]

\* The flexsea Device: whether a motor current was commanded, and the last one
Device(commanded, motor_current) ==
    [cls |-> "Device", commanded |-> commanded, motor_current |-> motor_current]

\* The floor under the ratio: 1 when the polynomial gives .5 or less
Floored(wm_wa) == IF RLeq(wm_wa, Rat(1, 2)) THEN RatInt(1) ELSE wm_wa

_calc_wm_wa(e) ==
    LET a == e.data.ankle_angle_rad
        k == e._wm_wa_coeffs
        wm_wa == RSum(<<RMul(RMul(RatInt(5), pow(a, 4)), k.poly4),
                        RMul(RMul(RatInt(4), pow(a, 3)), k.poly3),
                        RMul(RMul(RatInt(3), pow(a, 2)), k.poly2),
                        RMul(RMul(RatInt(2), a), k.poly1),
                        k.poly0>>)
    IN  [e EXCEPT !._wm_wa = Floored(wm_wa)]

\* The Exo after the call; the value returned is its current_cmd_A
_Nm_to_A(e, torque_cmd_Nm) ==
    LET c == _calc_wm_wa(e)
    IN  [c EXCEPT !.current_cmd_A = RDiv(RDiv(torque_cmd_Nm, c._wm_wa), c._kt)]

\* The requested current passed on as it is
Unsaturated(requested_current_A, limit) == requested_current_A

\* current_with_saturation_A
Saturated(requested_current_A, limit) ==
    IF RLt(RAbs(requested_current_A), limit) THEN requested_current_A
    ELSE RMul(RatInt(sign(requested_current_A)), limit)

\* The Exo after the call and the motor current it commands
send_torque(e, torque_cmd_Nm) ==
    LET c == _Nm_to_A(e, torque_cmd_Nm)
        current_with_saturation_A ==
            Saturated(c.current_cmd_A, c._current_limit_A)
    IN  [exo |-> [c EXCEPT !.torque_cmd_Nm = torque_cmd_Nm],
         motor_current |->
            c._direction * int(RMul(RatInt(1000), current_with_saturation_A))]

\* read_data: the processed reading, of which the model keeps the ankle angle
read_data(e, ankle_angle_rad) ==
    [e EXCEPT !.data = [ankle_angle_rad |-> ankle_angle_rad]]

\* Calibration coefficients, ankle angles (rad) and torques (Nm) offered
Poly0s == {Rat(3, 4), RatInt(5)}
Poly1s == {RatInt(-1), RatInt(0)}
Poly4s == {RatInt(0), RatInt(1)}
Calibrations ==
    {[poly4 |-> p4, poly3 |-> RatInt(0), poly2 |-> RatInt(0),
      poly1 |-> p1, poly0 |-> p0] : p4 \in Poly4s, p1 \in Poly1s, p0 \in Poly0s}
AnkleAngles == Ints({-1, 0, 1})
\* the smallest is a torque whose current is below one milliampere
Torques == Ints({-8, 0, 1, 20}) \cup {Rat(1, 10000)}

InitExo ==
    /\ \E is_left \in BOOLEAN, coeffs \in Calibrations, angle \in AnkleAngles :
          exo = Exo(is_left, coeffs, angle)
    /\ device = Device(FALSE, 0)
    /\ gait = NotConstructed /\ now = Unset
    /\ call = NotConstructed /\ obs = NotConstructed
    /\ controller = NotConstructed /\ ctrl_call = NotConstructed
    /\ tuner = NotConstructed

ReadData(ankle_angle_rad) ==
    /\ exo' = read_data(exo, ankle_angle_rad)
    /\ UNCHANGED <<estimator_vars, controller, ctrl_call, device, tuner>>

SendTorque(torque_cmd_Nm) ==
    /\ LET r == send_torque(exo, torque_cmd_Nm)
       IN  /\ exo' = r.exo
           /\ device' = Device(TRUE, r.motor_current)
    /\ UNCHANGED <<estimator_vars, controller, ctrl_call, tuner>>

NextExo ==
    \/ \E angle \in AnkleAngles : ReadData(angle)
    \/ \E torque \in Torques : SendTorque(torque)

SpecExo == InitExo /\ [][NextExo]_vars

-----------------------------------------------------------------------------
RMin(a, b) == IF RLeq(a, b) THEN a ELSE b

\* C19: after every _calc_wm_wa call the ratio _wm_wa that _Nm_to_A divides
\* by is at least 1.0, whatever the ankle angle and the coefficients.
C19_RatioAtLeastOne ==
    device.commanded => RLeq(RatInt(1), exo._wm_wa)

SaturatedCurrent_mA(e) ==
    int(RMul(RatInt(1000), Saturated(e.current_cmd_A, e._current_limit_A)))

\* C21 as stated: the direction sign of an Exo is -1 for a left boot and +1
\* otherwise and no call changes it; every value send_torque commands is the
\* direction sign times the saturated current; and a positive requested
\* torque always yields a command whose sign equals the direction sign.
C21_PositiveTorqueHasDirectionSign ==
    [][(/\ exo'._direction = exo._direction
        /\ exo'._direction = (IF exo'.is_left THEN -1 ELSE 1)
        /\ device'.commanded =>
              /\ device'.motor_current
                   = exo'._direction * SaturatedCurrent_mA(exo')
              /\ RLt(RatInt(0), exo'.torque_cmd_Nm) =>
                   sign(RatInt(device'.motor_current)) = exo'._direction)]_vars

\* C21 amended: the direction sign is -1 for a left boot and +1 otherwise and
\* no call changes it; every value send_torque commands is the direction sign
\* times the saturated current cut to whole milliamperes; so a positive
\* requested torque yields a command with the direction's sign when the
\* saturated current is at least 1 mA, and the command 0 when it is less.
C21_CommandIsDirectionTimesCurrent ==
    [][(/\ exo'._direction = exo._direction
        /\ exo'._direction = (IF exo'.is_left THEN -1 ELSE 1)
        /\ device'.commanded =>
              /\ device'.motor_current
                   = exo'._direction * SaturatedCurrent_mA(exo')
              /\ RLt(RatInt(0), exo'.torque_cmd_Nm) =>
                   IF RLeq(Rat(1, 1000), exo'.current_cmd_A)
                   THEN sign(RatInt(device'.motor_current)) = exo'._direction
                   ELSE device'.motor_current = 0)]_vars

\* C21 witness: a left boot asked for a positive torque that needs less than
\* 1 mA of current, and commanded 0.
C21_Witness ==
    /\ device.commanded /\ exo.is_left /\ exo._direction = -1
    /\ RLt(RatInt(0), exo.torque_cmd_Nm)
    /\ RLt(exo.current_cmd_A, Rat(1, 1000))
    /\ device.motor_current = 0

\* C25: after every send_torque call current_cmd_A is the current that was
\* sent to the device in that call (in A, before the direction sign; compared
\* in the whole milliamperes the device is given), also when the requested
\* current was saturated at the limit.
C25_CurrentCmdIsCurrentSent ==
    device.commanded =>
        int(RMul(RatInt(1000), exo.current_cmd_A))
          = exo._direction * device.motor_current

-----------------------------------------------------------------------------
(* The two evaluations FixedCollins.trial_handler makes in one cycle, on the *)
(* one profile that FixedCollins.__init__ constructs and configures: the    *)
(* left leg's, then the right leg's                                         *)

\* The torque the right leg is commanded when the profile c has first been
\* evaluated for the left leg
right_tau(c, left_kwargs, right_kwargs) ==
    LET left == calculate_torque_cmd(c, left_kwargs)
    IN  calculate_torque_cmd(left.c, right_kwargs).ret

\* The keyword arguments trial_handler passes: percent_gait, a phase or -1
PhaseKwargs ==
    {kw \in StateKwargs("ZhangCollins") : "percent_gait" \in DOMAIN kw}

\* C22: the torque commanded to the right leg is a function of the right
\* leg's phase and the configured profile only: from any state of a
\* configured ZhangCollins, two cycles that give the same phase for the right
\* leg (the undefined phase -1 included) and different phases for the left
\* leg command the same torque to the right leg.
C22_RightTorqueIgnoresLeftPhase ==
    [][(/\ controller.cls = "ZhangCollins"
        /\ Configured(controller) /\ Ordered(controller)
        /\ ctrl_call'.op = "calculate_torque_cmd"
        /\ ctrl_call'.nth = ctrl_call.nth + 1
        /\ ctrl_call'.kwargs \in PhaseKwargs)
       => \A other_left, right \in PhaseKwargs :
             right_tau(controller, ctrl_call'.kwargs, right)
               = right_tau(controller, other_left, right)]_vars

-----------------------------------------------------------------------------
(* C24, C29: the spacing of the WitteCollins breakpoints *)

\* The step is a set_parameters call on a WitteCollins after whose keyword
\* arguments every required parameter is set
WitteUpdate ==
    /\ controller.cls = "WitteCollins"
    /\ ctrl_call'.op = "set_parameters"
    /\ ctrl_call'.nth = ctrl_call.nth + 1
    /\ Configured(ApplyKwargs(controller, ctrl_call'.kwargs, "stance"))

\* C24: after a WitteCollins.set_parameters call in which all parameters are
\* set, the stored breakpoints satisfy t3 - t2 >= 20 and t2 - t1 >= 20, t3 is
\* the value supplied, and tp and the coefficients are the ones of the stored
\* (moved) breakpoints; the call does not raise.
C24_WitteSpacing ==
    [][WitteUpdate =>
         LET c == controller'
             given == ApplyKwargs(controller, ctrl_call'.kwargs, "stance")
         IN  /\ ctrl_call'.exc = "none"
             /\ RLeq(RatInt(MinSpacing), RSub(c.t3, c.t2))
             /\ RLeq(RatInt(MinSpacing), RSub(c.t2, c.t1))
             /\ c.t3 = given.t3
             /\ c.tp = RMul(c.user_mass, c.peak_torque_normalized)
             /\ <<c.a1, c.b1, c.c1, c.d1>>
                  = <<RisingA1(c.t1, c.t2, c.ts, c.tp),
                      RisingB1(c.t1, c.t2, c.ts, c.tp),
                      RisingC1(c.t1, c.t2, c.ts, c.tp),
                      RisingD1(c.t1, c.t2, c.ts, c.tp)>>
             /\ <<c.a2, c.b2, c.c2, c.d2>>
                  = <<FallingA2(c.t2, c.t3, c.ts, c.tp),
                      FallingB2(c.t2, c.t3, c.ts, c.tp),
                      FallingC2(c.t2, c.t3, c.ts, c.tp),
                      FallingD2(c.t2, c.t3, c.ts, c.tp)>>]_vars

\* C24 witness: a WitteCollins given a peak 10 before the stop stores the peak
\* 20 before the stop and the onset 20 before that.
C24_Witness ==
    /\ controller.cls = "WitteCollins" /\ ctrl_call.op = "set_parameters"
    /\ Given(ctrl_call.kwargs, "peak_percent_stance")
    /\ Given(ctrl_call.kwargs, "stop_percent_stance")
    /\ RSub(ctrl_call.kwargs["stop_percent_stance"],
            ctrl_call.kwargs["peak_percent_stance"]) = RatInt(10)
    /\ Configured(controller)
    /\ RSub(controller.t3, controller.t2) = RatInt(MinSpacing)
    /\ RSub(controller.t2, controller.t1) = RatInt(MinSpacing)

\* C29: a WitteCollins.set_parameters call whose breakpoints, as supplied,
\* satisfy t0 <= t1 <= t2 <= t3 leaves stored breakpoints that satisfy
\* t0 <= t1 <= t2 <= t3.
C29_WitteKeepsOrder ==
    [][WitteUpdate =>
         LET c == controller'
             given == ApplyKwargs(controller, ctrl_call'.kwargs, "stance")
         IN  (RLeq(given.t0, given.t1) /\ RLeq(given.t1, given.t2)
              /\ RLeq(given.t2, given.t3))
             => (RLeq(c.t0, c.t1) /\ RLeq(c.t1, c.t2) /\ RLeq(c.t2, c.t3))]_vars

-----------------------------------------------------------------------------
(* Part 4: a parameter update concurrent with the evaluation.  The source   *)
(* takes no lock and makes no copy: set_parameters assigns the attributes   *)
(* of the profile one statement after the other, and a thread evaluating    *)
(* the same object may run between any two of them.  The model switches     *)
(* threads between statements only and takes an evaluation in one step;     *)
(* the interpreter may also switch inside a statement.                      *)

\* Parameter updates made in one run
MaxUpdates == 1

\* The statements of ZhangCollins.set_parameters in program order, each named
\* by the attribute it assigns; "if" is the test guarding the recomputation
Statements ==
    <<"user_mass", "t0", "t1", "t2", "t3", "ts", "peak_torque_normalized",
      "if", "tp", "a1", "b1", "c1", "d1", "a2", "b2", "c2", "d2">>

\* The keyword that carries each parameter
ParameterKey ==
    [user_mass |-> "user_mass", t0 |-> "ramp_start_percent_gait",
     t1 |-> "onset_percent_gait", t2 |-> "peak_percent_gait",
     t3 |-> "stop_percent_gait", ts |-> "onset_torque",
     peak_torque_normalized |-> "normalized_peak_torque"]

\* The right-hand side of the assignment to a coefficient
Coefficient(c, stmt) ==
    CASE stmt = "a1" -> RisingA1(c.t1, c.t2, c.ts, c.tp)
      [] stmt = "b1" -> RisingB1(c.t1, c.t2, c.ts, c.tp)
      [] stmt = "c1" -> RisingC1(c.t1, c.t2, c.ts, c.tp)
      [] stmt = "d1" -> RisingD1(c.t1, c.t2, c.ts, c.tp)
      [] stmt = "a2" -> FallingA2(c.t2, c.t3, c.ts, c.tp)
      [] stmt = "b2" -> FallingB2(c.t2, c.t3, c.ts, c.tp)
      [] stmt = "c2" -> FallingC2(c.t2, c.t3, c.ts, c.tp)
      [] stmt = "d2" -> FallingD2(c.t2, c.t3, c.ts, c.tp)

\* One statement of set_parameters executed on the profile c
Statement(c, kwargs, stmt) ==
    CASE stmt \in DOMAIN ParameterKey ->
           Returned([c EXCEPT ![stmt] = Updated(@, kwargs, ParameterKey[stmt])],
                    RatInt(0))
      [] stmt = "if" -> Returned(c, RatInt(0))
      [] stmt = "tp" ->
           Returned([c EXCEPT !.tp = RMul(c.user_mass, c.peak_torque_normalized)],
                    RatInt(0))
      [] stmt \in {"a1", "b1", "c1", "d1"} ->
           IF c.t1 = c.t2 THEN Raised(c, "ZeroDivisionError")
           ELSE Returned([c EXCEPT ![stmt] = Coefficient(c, stmt)], RatInt(0))
      [] stmt \in {"a2", "b2", "c2", "d2"} ->
           IF c.t2 = c.t3 THEN Raised(c, "ZeroDivisionError")
           ELSE Returned([c EXCEPT ![stmt] = Coefficient(c, stmt)], RatInt(0))

\* The position after statement pc: the next statement, or 0 when the call
\* has ended (by an exception, after the last statement, or through the else
\* branch of the test, which only prints)
After(c, pc, exc) ==
    IF exc # "none" \/ pc = Len(Statements) THEN 0
    ELSE IF Statements[pc] = "if" /\ ~ParametersSet(c) THEN 0
    ELSE pc + 1

\* The updating thread: its position (0 outside a call), the arguments of
\* its call, the profile as it was when the call began, and the calls made
Thread(pc, kwargs, old, exc, calls) ==
    [cls |-> "Thread", pc |-> pc, kwargs |-> kwargs, old |-> old,
     exc |-> exc, calls |-> calls]

\* The updates offered: every parameter with the ramp starting at 0, or the
\* stop breakpoint alone
CompleteKwargs ==
    {kw \in Complete(SplineKeys("gait")) :
        kw["ramp_start_percent_gait"] = RatInt(0)}
TuningKwargs ==
    CompleteKwargs \cup {"stop_percent_gait" :> v : v \in Ints(Stops)}

\* The phases evaluated meanwhile: on the rising spline, on the falling
\* spline, and between the two stop breakpoints offered
TuningPhases == {45, 65, 75}
EvaluationKwargs == {"percent_gait" :> v : v \in Ints(TuningPhases)}

\* FixedCollins.__init__: the profile is constructed and given every parameter
InitTuning ==
    /\ \E kwargs \in CompleteKwargs :
          controller = ZhangCollins_set_parameters(ZhangCollins, kwargs).c
    /\ ctrl_call = CallFrame("__init__", NoKwargs, Returned(controller, RatInt(0)), 0)
    /\ tuner = Thread(0, NoKwargs, controller, "none", 0)
    /\ gait = NotConstructed /\ now = Unset
    /\ call = NotConstructed /\ obs = NotConstructed
    /\ exo = NotConstructed /\ device = NotConstructed

\* The updating thread enters set_parameters(**kwargs)
TunerCall(kwargs) ==
    /\ tuner.pc = 0
    /\ tuner' = Thread(1, kwargs, controller, "none", tuner.calls + 1)
    /\ UNCHANGED <<estimator_vars, controller, ctrl_call, exo, device>>

\* The updating thread executes the statement it is at
TunerStep ==
    /\ tuner.pc # 0
    /\ LET r == Statement(controller, tuner.kwargs, Statements[tuner.pc])
       IN  /\ controller' = r.c
           /\ tuner' = [tuner EXCEPT !.pc = After(r.c, tuner.pc, r.exc),
                                     !.exc = r.exc]
    /\ UNCHANGED <<estimator_vars, ctrl_call, exo, device>>

NextTuning ==
    \/ \E kwargs \in TuningKwargs :
          tuner.calls < MaxUpdates /\ TunerCall(kwargs)
    \/ TunerStep
    \/ \E kwargs \in EvaluationKwargs :
          ctrl_call.nth < MaxCalls /\ CalculateTorqueCmd(kwargs)

SpecTuning == InitTuning /\ [][NextTuning]_vars

\* What an evaluation reads of the profile: the breakpoints, the onset torque
\* and the eight coefficients
ParameterSet(c) ==
    <<c.t0, c.t1, c.t2, c.t3, c.ts,
      c.a1, c.b1, c.c1, c.d1, c.a2, c.b2, c.c2, c.d2>>

\* C23: an evaluation made while set_parameters is running on the same spline
\* profile reads either the complete set of breakpoints and coefficients the
\* profile had when the update began, or the complete set it has when the
\* update is finished, never a mixture.
C23_EvaluationSeesOldOrNew ==
    [][(/\ ctrl_call'.op = "calculate_torque_cmd"
        /\ ctrl_call'.nth = ctrl_call.nth + 1
        /\ tuner.pc # 0)
       => ParameterSet(controller) \in
            {ParameterSet(tuner.old),
             ParameterSet(set_parameters(tuner.old, tuner.kwargs).c)}]_vars

-----------------------------------------------------------------------------
(* C26..C28, C30: the phase estimator, continued *)

\* a history list with no unset slot
Full(past) == past.list /\ Len(past.items) > 0 /\ Unset \notin SeqRange(past.items)

\* d lies between 0.25 times and 1.75 times every duration of the history
WithinAll(d, past) ==
    \A i \in 1..Len(past.items) :
        4 * d >= past.items[i] /\ 4 * d <= 7 * past.items[i]

\* the history after d was accepted: d newest, the oldest dropped, and the
\* expected duration the mean of the entries
Accepted(past_before, past_after, expected_after, d) ==
    /\ past_after.list
    /\ past_after.items = InsertFrontPop(past_before.items, d)
    /\ Len(past_after.items) = Len(past_before.items)
    /\ expected_after = Rat(SumSeq(past_after.items), Len(past_after.items))

\* C26: on every validated heelstrike, the first after construction included,
\* the previous-heelstrike timestamp takes the value the last-heelstrike
\* timestamp had and the last-heelstrike timestamp becomes the timestamp of
\* the sample (from which percent gait is then measured).
C26_HeelstrikeShiftsTimestamps ==
    [][(call'.op = "calculate" /\ call'.hs.triggered) =>
         /\ gait'._heelstrike_timestamp_previous
              = gait._heelstrike_timestamp_current
         /\ gait'._heelstrike_timestamp_current = now']_vars

\* C27: for the stride and the stance filter, a duration fed to a full
\* history that lies between 0.25 and 1.75 times every duration in it is
\* accepted: it becomes the newest entry, the oldest is dropped, the history
\* keeps its length and the expected duration becomes the mean of the entries.
C27_ReasonableDurationAccepted ==
    [][call'.op = "calculate" =>
         /\ ( /\ call'.hs.fed /\ Full(gait._past_stride_durations)
              /\ WithinAll(call'.hs.dur, gait._past_stride_durations) )
            => ( /\ call'.hs.inserted
                 /\ Accepted(gait._past_stride_durations,
                             gait'._past_stride_durations,
                             gait'._expected_stride_duration_ms, call'.hs.dur) )
         /\ ( /\ call'.to.fed /\ Full(gait._past_stance_durations)
              /\ WithinAll(call'.to.dur, gait._past_stance_durations) )
            => ( /\ call'.to.inserted
                 /\ Accepted(gait._past_stance_durations,
                             gait'._past_stance_durations,
                             gait'._expected_stance_duration_ms, call'.to.dur) )
      ]_vars

\* C28: whenever the expected stride duration is defined, the stride history
\* holds at least one duration, holds no unset slot, and the expected stride
\* duration is the arithmetic mean of its entries.
C28_ExpectedStrideIsHistoryMean ==
    Defined(gait._expected_stride_duration_ms) =>
        /\ Full(gait._past_stride_durations)
        /\ gait._expected_stride_duration_ms
             = Rat(SumSeq(gait._past_stride_durations.items),
                   Len(gait._past_stride_durations.items))

\* C28 witness: an expected stride duration defined as the mean of a history
\* of two different durations.
C28_Witness ==
    /\ Defined(gait._expected_stride_duration_ms)
    /\ Full(gait._past_stride_durations)
    /\ Len(gait._past_stride_durations.items) = 2
    /\ gait._past_stride_durations.items[1] # gait._past_stride_durations.items[2]

\* What belongs to each detector: its armed flag, its armed timestamp and the
\* history it feeds
HeelstrikeSide(g) ==
    <<g._heelstrike_armed, g._heelstrike_armed_timestamp_ms,
      g._past_stride_durations>>
ToeoffSide(g) ==
    <<g._toeoff_armed, g._toeoff_armed_timestamp_ms, g._past_stance_durations>>

\* the armed flag is true exactly when the armed timestamp is set
FlagMatchesTimestamp(armed, armed_timestamp_ms) ==
    armed <=> (armed_timestamp_ms # Unset)

\* a detector that is armed after a call at timestamp_ms carries the
\* timestamp it carried before if it was armed before, and timestamp_ms if not
ArmedSince(armed_before, before_ms, armed_after, after_ms, timestamp_ms) ==
    armed_after => after_ms = (IF armed_before THEN before_ms ELSE timestamp_ms)

\* C30: after each _check_for_heelstrike and _check_for_toeoff call the armed
\* flag of the detector is true exactly when its armed timestamp is set, an
\* armed detector carries the timestamp of the sample that armed it, unchanged
\* while it stays armed, and the heelstrike detector's call leaves the
\* toe-off detector's flag, timestamp and stance history as they were, as the
\* toe-off detector's call leaves the heelstrike detector's flag, timestamp
\* and stride history.
C30_DetectorsConsistentAndSeparate ==
    [][call'.op = "calculate" =>
         LET timestamp_ms == call'.args[1]
             gyro_rad_s == call'.args[2]
             hs == _check_for_heelstrike(gait, timestamp_ms, gyro_rad_s)
             to == _check_for_toeoff(hs.g, timestamp_ms, gyro_rad_s)
         IN  /\ FlagMatchesTimestamp(hs.g._heelstrike_armed,
                                     hs.g._heelstrike_armed_timestamp_ms)
             /\ ArmedSince(gait._heelstrike_armed,
                           gait._heelstrike_armed_timestamp_ms,
                           hs.g._heelstrike_armed,
                           hs.g._heelstrike_armed_timestamp_ms, timestamp_ms)
             /\ ToeoffSide(hs.g) = ToeoffSide(gait)
             /\ IF hs.exc # "none" THEN gait' = hs.g
                ELSE /\ FlagMatchesTimestamp(to.g._toeoff_armed,
                                             to.g._toeoff_armed_timestamp_ms)
                     /\ ArmedSince(hs.g._toeoff_armed,
                                   hs.g._toeoff_armed_timestamp_ms,
                                   to.g._toeoff_armed,
                                   to.g._toeoff_armed_timestamp_ms, timestamp_ms)
                     /\ HeelstrikeSide(to.g) = HeelstrikeSide(hs.g)
                     /\ HeelstrikeSide(gait') = HeelstrikeSide(to.g)
                     /\ ToeoffSide(gait') = ToeoffSide(to.g)
      ]_vars

\* C30 witness: the heelstrike detector armed by an earlier sample and still
\* armed after the present one, the toe-off detector disarmed.
C30_Witness ==
    /\ call.op = "calculate"
    /\ gait._heelstrike_armed
    /\ gait._heelstrike_armed_timestamp_ms # Unset
    /\ gait._heelstrike_armed_timestamp_ms < now
    /\ ~gait._toeoff_armed /\ gait._toeoff_armed_timestamp_ms = Unset

====
